---- MODULE Spec2Model ----
(***************************************************************************)
(* Model of src/context_managers.py: the two context managers Stopwatch    *)
(* and TensorboardProcess, each driven by a `with cm:` statement that may   *)
(* be applied again to the same instance after it has been left.            *)
(*                                                                          *)
(* Instants are integers read from a non-decreasing clock `now`.  The      *)
(* child process started by Popen is modelled by its list of open inet4     *)
(* connections (what psutil's connections(kind="inet4") returns) and by     *)
(* the number of kill() calls issued on it.  Popen is taken to succeed; a   *)
(* child ends only by kill().  The properties tb_port and socket_exists     *)
(* are read by the poll loop and by the caller while it holds a live child. *)
(***************************************************************************)
EXTENDS Integers, Sequences, FiniteSets, TLC

\* ------------------------------------------------------------------ bounds
MaxRetries == 3
MaxEntries == 2
MaxPorts == 2
MaxClock == 3

VARIABLES
    cm,            \* class of the instance the with statement is applied to
    pc,            \* position of the calling thread
    entries,       \* number of with statements started on the instance
    handle,        \* whether __enter__ returned self to the with statement
    body_ran,      \* whether the governed block started to run
    exc,           \* whether a failure of the governed block is in flight
    exit_ret,      \* value returned by the last __exit__
    outcome,       \* how the last with statement ended for its caller
    \* Stopwatch
    time_format, start_time, stop_time, now,
    \* TensorboardProcess
    log_dir, n_retries, process, kills, conns,
    arg_n_retries, \* the n_retries argument of the constructor
    budget,        \* n_retries when the current __enter__ started
    polls,         \* evaluations of socket_exists by the current poll loop
    sleeps,        \* decrement-and-sleep iterations of the current poll loop
    polled_port,   \* local port of the first connection the loop's last poll saw
    ever_open,     \* the current child has had an inet4 socket at some time
    q_asked,       \* tb_port has been read on the current child
    q_port,        \* result of the last tb_port read on the current child
    q_exists,      \* result of the last socket_exists read by the caller
    q_quiet,       \* no change of connections since the last socket_exists query
    q_repeat,      \* the last socket_exists query repeated one with no change between
    poll_quiet     \* no change of connections since the last poll of the loop

with_vars == <<cm, pc, entries, handle, body_ran, exc, exit_ret, outcome>>
sw_vars == <<time_format, start_time, stop_time, now>>
tb_fields == <<log_dir, n_retries, process>>
tb_child == <<kills, conns, ever_open>>
tb_loop == <<arg_n_retries, budget, polls, sleeps, polled_port>>
tb_query == <<q_asked, q_port, q_exists, q_quiet, q_repeat>>
tb_vars == <<tb_fields, tb_child, tb_loop, poll_quiet, tb_query>>
vars == <<with_vars, sw_vars, tb_vars>>

\* ------------------------------------------------------------- constants
\* An attribute that has not been assigned (start_time, stop_time); the
\* process attribute holds None until Popen assigns a child.
Unset == -1
None == 0
\* A value v a property returned is recorded as <<v>>, no value as <<>>:
\* tb_port returns no value when it raises IndexError.
NoValue == <<>>
IndexError == NoValue

Ports == {6005 + i : i \in 1..MaxPorts}
Pids == 1..MaxEntries

\* psutil's sconn(fd, family, type, laddr, raddr, status) of a socket bound
\* to local port p.
Conn(p) == <<p, "AF_INET", "SOCK_STREAM", <<"0.0.0.0", p>>, <<"0.0.0.0", 0>>, "LISTEN">>

\* ------------------------------------------------ TensorboardProcess queries
\* process_object.connections(kind="inet4") of the child self.process
process_connections == conns

\* port = process_connections[0][3][1] (0-based in the source)
\* variant: the last connection instead of the first
tb_port_mutant == IF Len(process_connections) = 0 THEN IndexError
                  ELSE <<process_connections[Len(process_connections)][4][2]>>
tb_port == IF Len(process_connections) = 0 THEN IndexError
           ELSE <<process_connections[1][4][2]>>

\* variant: len(process_connections) > 1
socket_exists_mutant == Len(process_connections) > 1
socket_exists == IF Len(process_connections) > 0 THEN TRUE ELSE FALSE

\* ------------------------------------------------------------------- Init
Init ==
    /\ cm \in {"Stopwatch", "TensorboardProcess"}
    /\ pc = "idle"
    /\ entries = 0
    /\ handle = FALSE
    /\ body_ran = FALSE
    /\ exc = FALSE
    /\ exit_ret = FALSE
    /\ outcome = "none"
    /\ time_format = "%Y.%m.%d %H:%M:%S"
    /\ start_time = Unset
    /\ stop_time = Unset
    /\ now = 0
    /\ log_dir = "logs"
    /\ arg_n_retries \in 1..MaxRetries
    /\ n_retries = arg_n_retries
    /\ process = None
    /\ kills = [p \in Pids |-> 0]
    /\ conns = <<>>
    /\ budget = n_retries
    /\ polls = 0
    /\ sleeps = 0
    /\ polled_port = NoValue
    /\ ever_open = FALSE
    /\ q_asked = FALSE
    /\ q_port = NoValue
    /\ q_exists = NoValue
    /\ q_quiet = FALSE
    /\ q_repeat = FALSE
    /\ poll_quiet = FALSE

\* A with statement can start when the thread is outside any with statement.
Outside == pc \in {"idle", "done", "failed"}

\* ---------------------------------------------------------------- Stopwatch
\* datetime.now() under a non-decreasing clock
Tick ==
    /\ cm = "Stopwatch"
    /\ now < MaxClock
    /\ now' = now + 1
    /\ UNCHANGED <<with_vars, time_format, start_time, stop_time, tb_vars>>

Stopwatch_enter ==
    /\ cm = "Stopwatch"
    /\ Outside
    /\ entries < MaxEntries
    /\ entries' = entries + 1
    /\ start_time' = now
    /\ handle' = TRUE
    /\ body_ran' = FALSE
    /\ exc' = FALSE
    /\ outcome' = "none"
    /\ pc' = "body"
    /\ UNCHANGED <<cm, exit_ret, time_format, stop_time, now, tb_vars>>

\* variant: __exit__ returns True
Stopwatch_exit_mutant ==
    /\ cm = "Stopwatch"
    /\ pc = "leaving"
    /\ stop_time' = now
    /\ exit_ret' = TRUE
    /\ outcome' = IF exc /\ ~exit_ret' THEN "raised" ELSE "completed"
    /\ pc' = "done"
    /\ UNCHANGED <<cm, entries, handle, body_ran, exc, time_format, start_time, now, tb_vars>>

Stopwatch_exit ==
    /\ cm = "Stopwatch"
    /\ pc = "leaving"
    /\ stop_time' = now
    /\ exit_ret' = FALSE
    /\ outcome' = IF exc /\ ~exit_ret' THEN "raised" ELSE "completed"
    /\ pc' = "done"
    /\ UNCHANGED <<cm, entries, handle, body_ran, exc, time_format, start_time, now, tb_vars>>

\* --------------------------------------------------------- governed block
BodyReturns ==
    /\ pc = "body"
    /\ body_ran' = TRUE
    /\ exc' = FALSE
    /\ pc' = "leaving"
    /\ UNCHANGED <<cm, entries, handle, exit_ret, outcome, sw_vars, tb_vars>>

BodyRaises ==
    /\ pc = "body"
    /\ body_ran' = TRUE
    /\ exc' = TRUE
    /\ pc' = "leaving"
    /\ UNCHANGED <<cm, entries, handle, exit_ret, outcome, sw_vars, tb_vars>>

\* ------------------------------------------------------ TensorboardProcess
\* Local port of the first inet4 connection the child has now, if it has one.
FirstLocalPort == IF conns = <<>> THEN NoValue ELSE <<Head(conns)[4][2]>>

\* The child opens an inet4 socket on port p; psutil lists it at position i.
ChildOpens(p, i) ==
    /\ cm = "TensorboardProcess"
    /\ process # None
    /\ kills[process] = 0
    /\ Len(conns) < MaxPorts
    /\ \A j \in 1..Len(conns) : conns[j] # Conn(p)
    /\ conns' = SubSeq(conns, 1, i - 1) \o <<Conn(p)>> \o SubSeq(conns, i, Len(conns))
    /\ ever_open' = TRUE
    /\ q_quiet' = FALSE
    /\ poll_quiet' = FALSE
    /\ UNCHANGED <<with_vars, sw_vars, tb_fields, kills, tb_loop, q_asked,
                   q_port, q_exists, q_repeat>>

\* The child closes the i-th of its inet4 sockets.
ChildCloses(i) ==
    /\ cm = "TensorboardProcess"
    /\ process # None
    /\ kills[process] = 0
    /\ i \in 1..Len(conns)
    /\ conns' = SubSeq(conns, 1, i - 1) \o SubSeq(conns, i + 1, Len(conns))
    /\ q_quiet' = FALSE
    /\ poll_quiet' = FALSE
    /\ UNCHANGED <<with_vars, sw_vars, tb_fields, kills, ever_open, tb_loop, q_asked,
                   q_port, q_exists, q_repeat>>

\* self.process = subprocess.Popen([...]): a new child, no socket open yet
\* variant: the budget is reset to the constructor argument on entry
TensorboardProcess_enter_mutant ==
    /\ cm = "TensorboardProcess"
    /\ Outside
    /\ entries < MaxEntries
    /\ entries' = entries + 1
    /\ process' = process + 1
    /\ n_retries' = arg_n_retries
    /\ conns' = <<>>
    /\ ever_open' = FALSE
    /\ budget' = n_retries'
    /\ polls' = 0
    /\ sleeps' = 0
    /\ polled_port' = NoValue
    /\ poll_quiet' = FALSE
    /\ q_asked' = FALSE
    /\ q_port' = NoValue
    /\ q_exists' = NoValue
    /\ q_quiet' = FALSE
    /\ q_repeat' = FALSE
    /\ handle' = FALSE
    /\ body_ran' = FALSE
    /\ exc' = FALSE
    /\ outcome' = "none"
    /\ pc' = "poll"
    /\ UNCHANGED <<cm, exit_ret, sw_vars, log_dir, kills, arg_n_retries>>

TensorboardProcess_enter ==
    /\ cm = "TensorboardProcess"
    /\ Outside
    /\ entries < MaxEntries
    /\ entries' = entries + 1
    /\ process' = process + 1
    /\ conns' = <<>>
    /\ ever_open' = FALSE
    /\ budget' = n_retries
    /\ polls' = 0
    /\ sleeps' = 0
    /\ polled_port' = NoValue
    /\ poll_quiet' = FALSE
    /\ q_asked' = FALSE
    /\ q_port' = NoValue
    /\ q_exists' = NoValue
    /\ q_quiet' = FALSE
    /\ q_repeat' = FALSE
    /\ handle' = FALSE
    /\ body_ran' = FALSE
    /\ exc' = FALSE
    /\ outcome' = "none"
    /\ pc' = "poll"
    /\ UNCHANGED <<cm, exit_ret, sw_vars, log_dir, n_retries, kills, arg_n_retries>>

\* the loop condition: not self.socket_exists and self.n_retries > 0
\* variant: n_retries > 1
waiting_mutant == ~socket_exists /\ n_retries > 1
waiting == ~socket_exists /\ n_retries > 0

\* one iteration: self.n_retries -= 1; os.system("sleep 1")
PollRetry ==
    /\ cm = "TensorboardProcess"
    /\ pc = "poll"
    /\ waiting
    /\ polls' = polls + 1
    /\ polled_port' = FirstLocalPort
    /\ poll_quiet' = TRUE
    /\ n_retries' = n_retries - 1
    /\ sleeps' = sleeps + 1
    /\ UNCHANGED <<with_vars, sw_vars, log_dir, process, tb_child, arg_n_retries,
                   budget, tb_query>>

\* the loop condition is false: control reaches the if statement
PollExit ==
    /\ cm = "TensorboardProcess"
    /\ pc = "poll"
    /\ ~waiting
    /\ polls' = polls + 1
    /\ polled_port' = FirstLocalPort
    /\ poll_quiet' = TRUE
    /\ pc' = "check"
    /\ UNCHANGED <<cm, entries, handle, body_ran, exc, exit_ret, outcome, sw_vars,
                   tb_fields, tb_child, arg_n_retries, budget, sleeps, tb_query>>

\* if self.n_retries == 0: raise Exception(...)
\* variant: the child is killed before raising
EnterRaises_mutant ==
    /\ cm = "TensorboardProcess"
    /\ pc = "check"
    /\ n_retries = 0
    /\ kills' = [kills EXCEPT ![process] = @ + 1]
    /\ conns' = <<>>
    /\ outcome' = "instantiation failed"
    /\ pc' = "failed"
    /\ UNCHANGED <<cm, entries, handle, body_ran, exc, exit_ret, sw_vars, tb_fields,
                   ever_open, tb_loop, poll_quiet, tb_query>>

EnterRaises ==
    /\ cm = "TensorboardProcess"
    /\ pc = "check"
    /\ n_retries = 0
    /\ outcome' = "instantiation failed"
    /\ pc' = "failed"
    /\ UNCHANGED <<cm, entries, handle, body_ran, exc, exit_ret, sw_vars, tb_vars>>

\* return self
EnterReturns ==
    /\ cm = "TensorboardProcess"
    /\ pc = "check"
    /\ n_retries # 0
    /\ handle' = TRUE
    /\ pc' = "body"
    /\ UNCHANGED <<cm, entries, body_ran, exc, exit_ret, outcome, sw_vars, tb_vars>>

\* self.process.kill(); return False
\* variant: the kill is skipped when a failure is in flight
TensorboardProcess_exit_mutant ==
    /\ cm = "TensorboardProcess"
    /\ pc = "leaving"
    /\ kills' = IF exc THEN kills ELSE [kills EXCEPT ![process] = @ + 1]
    /\ conns' = IF exc THEN conns ELSE <<>>
    /\ q_quiet' = FALSE
    /\ poll_quiet' = FALSE
    /\ exit_ret' = FALSE
    /\ outcome' = IF exc /\ ~exit_ret' THEN "raised" ELSE "completed"
    /\ pc' = "done"
    /\ UNCHANGED <<cm, entries, handle, body_ran, exc, sw_vars, tb_fields, ever_open,
                   tb_loop, q_asked, q_port, q_exists, q_repeat>>

TensorboardProcess_exit ==
    /\ cm = "TensorboardProcess"
    /\ pc = "leaving"
    /\ kills' = [kills EXCEPT ![process] = @ + 1]
    /\ conns' = <<>>
    /\ q_quiet' = FALSE
    /\ poll_quiet' = FALSE
    /\ exit_ret' = FALSE
    /\ outcome' = IF exc /\ ~exit_ret' THEN "raised" ELSE "completed"
    /\ pc' = "done"
    /\ UNCHANGED <<cm, entries, handle, body_ran, exc, sw_vars, tb_fields, ever_open,
                   tb_loop, q_asked, q_port, q_exists, q_repeat>>

\* The caller may read the properties while it holds a live child: inside the
\* governed block, or after __enter__ raised (the child is still running).
CanQuery ==
    /\ cm = "TensorboardProcess"
    /\ pc \in {"body", "failed"}
    /\ process # None
    /\ kills[process] = 0

Query_tb_port ==
    /\ CanQuery
    /\ q_asked' = TRUE
    /\ q_port' = tb_port
    /\ UNCHANGED <<with_vars, sw_vars, tb_fields, tb_child, tb_loop, poll_quiet,
                   q_exists, q_quiet, q_repeat>>

Query_socket_exists ==
    /\ CanQuery
    /\ q_exists' = <<socket_exists>>
    /\ q_repeat' = q_quiet
    /\ q_quiet' = TRUE
    /\ UNCHANGED <<with_vars, sw_vars, tb_fields, tb_child, tb_loop, poll_quiet,
                   q_asked, q_port>>

Next ==
    \/ Tick
    \/ Stopwatch_enter
    \/ Stopwatch_exit
    \/ BodyReturns
    \/ BodyRaises
    \/ \E p \in Ports : \E i \in 1..(Len(conns) + 1) : ChildOpens(p, i)
    \/ \E i \in 1..MaxPorts : ChildCloses(i)
    \/ TensorboardProcess_enter
    \/ PollRetry
    \/ PollExit
    \/ EnterRaises
    \/ EnterReturns
    \/ TensorboardProcess_exit
    \/ Query_tb_port
    \/ Query_socket_exists

Spec == Init /\ [][Next]_vars

\* The calling thread is never suspended for good inside the poll loop: the
\* sleep returns and the loop condition is evaluated again, whatever the child
\* does to its sockets meanwhile.
FairSpec == Spec /\ WF_vars(PollRetry \/ PollExit)

\* ==================================================================== claims

\* C1: after __enter__ returned the handle, leaving the governed block, by
\* completion or by a failure, runs __exit__, which kills the spawned child
\* exactly once (no kill is issued before), returns False, and an in-flight
\* failure of the block reaches the caller.
C1_ExitKillsAndPropagates ==
    cm = "TensorboardProcess" =>
        /\ (pc \in {"body", "leaving"} => (handle /\ kills[process] = 0))
        /\ (pc = "done" =>
                /\ handle
                /\ kills[process] = 1
                /\ exit_ret = FALSE
                /\ outcome = (IF exc THEN "raised" ELSE "completed"))

C1_Witness ==
    /\ cm = "TensorboardProcess"
    /\ pc = "done"
    /\ exc
    /\ kills[process] = 1
    /\ outcome = "raised"

\* C2: with a positive budget N at entry and a child that never opens an inet4
\* socket, the poll loop ends after exactly N decrement-and-sleep iterations
\* with n_retries at 0, __enter__ raises "instantiation failed", no handle is
\* returned and the governed block does not run.
C2_TimeoutAfterExactlyN ==
    (/\ cm = "TensorboardProcess"
     /\ process # None
     /\ budget > 0
     /\ ~ever_open
     /\ pc # "poll") =>
        /\ pc \in {"check", "failed"}
        /\ sleeps = budget
        /\ polls = budget + 1
        /\ n_retries = 0
        /\ ~handle
        /\ ~body_ran
        /\ (pc = "failed" => outcome = "instantiation failed")

C2_Witness ==
    /\ cm = "TensorboardProcess"
    /\ pc = "failed"
    /\ ~ever_open
    /\ budget = 3
    /\ sleeps = 3
    /\ outcome = "instantiation failed"

\* C3 (as claimed): with a positive budget, __enter__ raises only when the
\* loop's last socket_exists check saw no socket; if that check saw an open
\* socket, also one that appeared during the final sleep, the handle is returned.
C3_RaisesOnlyWithoutSocket ==
    (cm = "TensorboardProcess" /\ budget > 0 /\ pc = "failed") => polled_port = NoValue

\* C4: if the k-th evaluation of the loop condition is the first to see an open
\* socket and k is at most the budget N at entry, __enter__ returns the handle
\* after k evaluations and k-1 sleeps, n_retries is N-(k-1), and tb_port read
\* while the connections are as that evaluation saw them returns the local
\* port of the first connection.
C4_ReadyAtKthPoll ==
    (/\ cm = "TensorboardProcess"
     /\ pc \notin {"idle", "poll"}
     /\ polled_port # NoValue
     /\ polls <= budget) =>
        /\ pc # "failed"
        /\ sleeps = polls - 1
        /\ n_retries = budget - (polls - 1)
        /\ (pc \in {"body", "leaving", "done"} => handle)
        /\ ((pc = "body" /\ poll_quiet /\ q_asked) => q_port = polled_port)

C4_Witness ==
    /\ cm = "TensorboardProcess"
    /\ pc = "body"
    /\ budget = 3
    /\ polls = 2
    /\ n_retries = 2
    /\ poll_quiet
    /\ q_asked
    /\ Len(conns) = 2
    /\ q_port = <<conns[1][4][2]>>

\* C5: when __enter__ fails on an exhausted budget the child is left running:
\* no kill has been issued on it while __enter__ runs or after it raised.
C5_ChildLeftRunningOnFailure ==
    (cm = "TensorboardProcess" /\ pc \in {"poll", "check", "failed"}) =>
        (kills[process] = 0 /\ ~handle /\ ~body_ran)

C5_Witness ==
    /\ cm = "TensorboardProcess"
    /\ pc = "failed"
    /\ n_retries = 0
    /\ kills[process] = 0
    /\ entries = 2

\* C6 (as claimed): tb_port yields no port while the child has never opened an
\* inet4 socket, and once it has returned a port every later read on the same
\* child returns that port, however the child's connections evolve.
C6_PortStableOnceDiscovered ==
    /\ []((cm = "TensorboardProcess" /\ q_asked /\ ~ever_open) => q_port = NoValue)
    /\ [][(Query_tb_port /\ q_asked /\ q_port # NoValue) => q_port' = q_port]_vars

\* C7: a read of socket_exists returns true iff the child has at least one
\* open inet4 connection at that time, changes neither n_retries, the process
\* handle, log_dir nor the child, and returns what the previous read returned
\* when the connections did not change in between.
C7_SocketExistsIsPureQuery ==
    [][Query_socket_exists =>
        /\ q_exists' = <<Len(conns) > 0>>
        /\ UNCHANGED <<n_retries, process, log_dir, conns, kills>>
        /\ ((q_quiet /\ q_exists # NoValue) => q_exists' = q_exists)]_vars

C7_Witness ==
    /\ cm = "TensorboardProcess"
    /\ q_repeat
    /\ q_quiet
    /\ q_exists = <<TRUE>>
    /\ n_retries = 1

\* C8 (as claimed): under a non-decreasing clock, in every state reached by
\* entering and leaving the same Stopwatch any number of times, stop_time is
\* at least start_time whenever both are set.
C8_StopNotBeforeStart ==
    (cm = "Stopwatch" /\ start_time # Unset /\ stop_time # Unset) =>
        stop_time >= start_time

\* C9: Stopwatch.__exit__, after completion or failure of the timed block,
\* sets stop_time to the current instant, leaves start_time and time_format
\* unchanged and returns False, so a failure in flight reaches the caller.
C9_StopwatchExit ==
    [][(cm = "Stopwatch" /\ pc = "leaving" /\ pc' = "done") =>
        /\ stop_time' = now
        /\ start_time' = start_time
        /\ time_format' = time_format
        /\ exit_ret' = FALSE
        /\ outcome' = (IF exc THEN "raised" ELSE "completed")]_vars

C9_Witness ==
    /\ cm = "Stopwatch"
    /\ pc = "done"
    /\ exc
    /\ outcome = "raised"
    /\ stop_time > start_time

\* C10: for a positive constructor budget N, n_retries stays in 0..N, changes
\* only by the decrement of one loop iteration and is never raised or reset,
\* also on a later entry of the same instance; a poll loop makes at most as
\* many sleeps as the budget it started with, and it terminates.
C10_BudgetOnlyDecreases ==
    /\ [](cm = "TensorboardProcess" =>
            /\ n_retries \in 0..arg_n_retries
            /\ budget <= arg_n_retries
            /\ sleeps <= budget
            /\ n_retries = budget - sleeps)
    /\ [][\/ n_retries' = n_retries
          \/ (pc = "poll" /\ n_retries' = n_retries - 1 /\ sleeps' = sleeps + 1)]_vars
    /\ ((cm = "TensorboardProcess" /\ pc = "poll") ~> (pc = "check"))

C10_Witness ==
    /\ cm = "TensorboardProcess"
    /\ entries = 2
    /\ pc = "check"
    /\ budget > 0
    /\ budget < arg_n_retries
    /\ sleeps = budget
    /\ n_retries = 0
====
